---- MODULE Spec2Model ----
(***************************************************************************)
(* StreakBuddy (src/bot.py): the habit store kept in data.json and the     *)
(* daily reminder jobs kept in the application's job queue.                *)
(*                                                                         *)
(* Dates are day ordinals (date.today() is `today`, d - timedelta(days=1)  *)
(* is d - 1); a time of day is the record [hour, minute] that parse_hhmm   *)
(* builds; an "HH:MM" text is the sequence of its characters.  The event   *)
(* loop runs one handler or job callback at a time, so a handler's steps   *)
(* are never interleaved with another handler: `pc` says where the running *)
(* handler stands, and only that handler moves while it is not idle.       *)
(*                                                                         *)
(* Time: `today` and `clock` are the date and the minute of the day in the *)
(* one timezone of the bot (the host's date.today() is taken to be in that *)
(* timezone too).  The clock visits midnight and the fire times in use; a  *)
(* job created at minute m first runs today when its time is after m and   *)
(* tomorrow otherwise.  The job queue is prompt: the clock does not move   *)
(* on while a job is due.  A restart is immediate: the job queue is lost   *)
(* and post_init runs before anything else.                                *)
(***************************************************************************)
EXTENDS Integers, Sequences, FiniteSets, Bags, TLC

\* ---------------------------------------------------------------- bounds
MaxDay == 1
MaxStatsDay == 8

Chats == {1, 2}
\* habit names are texts: sequences of characters
Run == <<"r", "u", "n">>
HabitNames == {Run}
Days == 0..MaxDay

\* "HH:MM" texts the reminder pattern of handle_text lets through
\* (\d{1,2}:\d{2}): two valid ones, with a one-digit and a two-digit hour,
\* one with the hour out of range and one with the minute out of range.
T830 == <<"8", ":", "3", "0">>
T0000 == <<"0", "0", ":", "0", "0">>
T2400 == <<"2", "4", ":", "0", "0">>
T1260 == <<"1", "2", ":", "6", "0">>
HHMMInputs == {T830, T0000, T2400, T1260}

VARIABLES
    data,    \* contents of data.json: chat id -> [habits, reminders]
    jobs,    \* app.job_queue: bag of live daily jobs
    today,   \* date.today()
    clock,   \* minute of the day
    pc,      \* position of the running handler
    event,   \* the last completed operation and the result it reported
    mode     \* context.user_data["mode"] of each chat: the button pressed last

vars == <<data, jobs, today, clock, pc, event, mode>>

\* ------------------------------------------------------------- helpers
EmptyMap == [x \in {} |-> x]

Put_only(f, k, v) == [x \in {k} |-> v]

Put(f, k, v) == [x \in (DOMAIN f) \cup {k} |-> IF x = k THEN v ELSE f[x]]

Del(f, k) == [x \in (DOMAIN f) \ {k} |-> f[x]]

Contains(s, x) == \E i \in 1..Len(s) : s[i] = x

ToSet(s) == {s[i] : i \in 1..Len(s)}

Digits == <<"0", "1", "2", "3", "4", "5", "6", "7", "8", "9">>

IsDigit(c) == \E i \in 1..10 : Digits[i] = c

DigitVal(c) == (CHOOSE i \in 1..10 : Digits[i] = c) - 1

\* ------------------------------------------------------------- storage
\* get_user: users.setdefault(str(chat_id), {"habits": {}, "reminders": {}})
get_user(d, chat_id) ==
    IF chat_id \in DOMAIN d THEN d[chat_id]
    ELSE [habits |-> EmptyMap, reminders |-> EmptyMap]

\* ------------------------------------------------------------- helpers of bot.py
RECURSIVE StreakFrom(_, _)
StreakFrom(s, d) == IF d \in s THEN 1 + StreakFrom(s, d - 1) ELSE 0

\* compute_streak: walk back from date.today() while the day is in the set
compute_streak_grace(done_dates, now) ==
    IF now \in ToSet(done_dates) THEN StreakFrom(ToSet(done_dates), now)
    ELSE StreakFrom(ToSet(done_dates), now - 1)

compute_streak(done_dates, now) == StreakFrom(ToSet(done_dates), now)

last_7_days_window_8(now) == {(now - 7) + i : i \in 0..7}

\* last_7_days_window: start = today - 6, the dates start + i for i in range(7)
last_7_days_window(now) == {(now - 6) + i : i \in 0..6}

None == [hour |-> -1, minute |-> -1]

\* the pattern without its range checks: (\d?\d):(\d\d)
parse_hhmm_loose(hhmm) ==
    LET n == Len(hhmm)
        hs == SubSeq(hhmm, 1, n - 3)
        h == IF Len(hs) = 1 THEN DigitVal(hs[1])
             ELSE 10 * DigitVal(hs[1]) + DigitVal(hs[2])
        mi == 10 * DigitVal(hhmm[n - 1]) + DigitVal(hhmm[n])
    IN  IF n \in {4, 5} /\ hhmm[n - 2] = ":"
        THEN [hour |-> h, minute |-> mi]
        ELSE None

\* parse_hhmm: re.fullmatch(r"([01]?\d|2[0-3]):([0-5]\d)", hhmm.strip())
parse_hhmm(hhmm) ==
    LET n == Len(hhmm)
        hs == SubSeq(hhmm, 1, n - 3)
        hourOk == \/ Len(hs) = 1 /\ IsDigit(hs[1])
                  \/ Len(hs) = 2 /\ hs[1] \in {"0", "1"} /\ IsDigit(hs[2])
                  \/ Len(hs) = 2 /\ hs[1] = "2" /\ hs[2] \in {"0", "1", "2", "3"}
        minOk == hhmm[n - 1] \in {"0", "1", "2", "3", "4", "5"} /\ IsDigit(hhmm[n])
        h == IF Len(hs) = 1 THEN DigitVal(hs[1])
             ELSE 10 * DigitVal(hs[1]) + DigitVal(hs[2])
        mi == 10 * DigitVal(hhmm[n - 1]) + DigitVal(hhmm[n])
    IN  IF n \in {4, 5} /\ hhmm[n - 2] = ":" /\ hourOk /\ minOk
        THEN [hour |-> h, minute |-> mi]
        ELSE None

MinuteOfDay(t) == 60 * t.hour + t.minute

\* the instants the clock visits: midnight and the fire times in use
ClockPoints ==
    {0} \cup {MinuteOfDay(parse_hhmm(x)) : x \in {y \in HHMMInputs : parse_hhmm(y) # None}}

\* ------------------------------------------------------------- reminders scheduling
\* _job_name: f"reminder:{chat_id}:{habit_name}"
job_name(chat_id, habit_name) == <<"reminder", chat_id, habit_name>>

\* app.job_queue.get_jobs_by_name(name)
get_jobs_by_name(js, name) == {j \in BagToSet(js) : j.name = name}

\* len(app.job_queue.get_jobs_by_name(name))
CountByName(js, name) ==
    LET S == get_jobs_by_name(js, name)
    IN  BagCardinality([j \in S |-> js[j]])

RemoveJobs_none(js, name) == js

\* for j in app.job_queue.get_jobs_by_name(name): j.schedule_removal()
RemoveJobs(js, name) ==
    LET keep == {j \in BagToSet(js) : j.name # name}
    IN  [j \in keep |-> js[j]]

\* app.job_queue.run_daily(reminder_job_callback, time=t, chat_id=chat_id,
\* name=name, data={"habit_name": habit_name}): the first run is today when
\* t is still ahead, tomorrow otherwise
run_daily(js, chat_id, habit_name, t, day, minute) ==
    js (+) SetToBag({[name |-> job_name(chat_id, habit_name),
                      chat_id |-> chat_id,
                      habit_name |-> habit_name,
                      time |-> t,
                      next_run |-> IF MinuteOfDay(t) > minute THEN day ELSE day + 1]})

\* schedule_reminder, the whole function: the job queue it leaves behind
schedule_reminder(js, chat_id, habit_name, hhmm, day, minute) ==
    LET t == parse_hhmm(hhmm)
    IN  IF t = None THEN js
        ELSE run_daily(RemoveJobs(js, job_name(chat_id, habit_name)),
                       chat_id, habit_name, t, day, minute)

\* the reminder entries of the store, as (chat id, habit name) pairs
ReminderKeys(d) == {k \in Chats \X HabitNames :
                        k[1] \in DOMAIN d /\ k[2] \in DOMAIN d[k[1]].reminders}

RECURSIVE RestoreFrom(_, _, _, _, _)
RestoreFrom(js, d, keys, day, minute) ==
    IF keys = {} THEN js
    ELSE LET k == CHOOSE x \in keys : TRUE
         IN  RestoreFrom(schedule_reminder(js, k[1], k[2], d[k[1]].reminders[k[2]],
                                           day, minute),
                         d, keys \ {k}, day, minute)

restore_all_reminders_first(js, d, day, minute) ==
    IF ReminderKeys(d) = {} THEN js
    ELSE RestoreFrom(js, d, {CHOOSE k \in ReminderKeys(d) : TRUE}, day, minute)

\* restore_all_reminders: schedule_reminder for every persisted entry
restore_all_reminders(js, d, day, minute) ==
    RestoreFrom(js, d, ReminderKeys(d), day, minute)

\* ------------------------------------------------------------- state
Idle == [at |-> "idle", chat_id |-> 0, habit_name |-> <<>>, hhmm |-> <<>>]

Ev(op, chat_id, habit_name, result, streak) ==
    [op |-> op, chat_id |-> chat_id, habit_name |-> habit_name,
     result |-> result, streak |-> streak]

\* no button mode is pending in any chat
NoMode == [c \in Chats |-> "none"]

\* main(): no data.json yet, an empty job queue, post_init still to run
Init ==
    /\ data = EmptyMap
    /\ jobs = EmptyBag
    /\ today = 0
    /\ clock = 0
    /\ pc = [Idle EXCEPT !.at = "post_init"]
    /\ event = Ev("Start", 0, <<>>, "", 0)
    /\ mode = NoMode

\* post_init: restore the reminders of data.json before polling starts
RestoreAll ==
    /\ pc.at = "post_init"
    /\ jobs' = restore_all_reminders(jobs, data, today, clock)
    /\ pc' = Idle
    /\ event' = Ev("RestoreAll", 0, <<>>, "", 0)
    /\ UNCHANGED <<data, today, clock, mode>>

\* the process stops and starts again: the job queue is lost, data.json stays
Restart ==
    /\ pc.at = "idle"
    /\ jobs' = EmptyBag
    /\ pc' = [Idle EXCEPT !.at = "post_init"]
    /\ event' = Ev("Restart", 0, <<>>, "", 0)
    /\ UNCHANGED <<data, today, clock, mode>>

\* ------------------------------------------------------------- core actions
NewHabit_epoch(now) == [created |-> 0, done_dates |-> <<>>]

\* {"created": today_str(), "done_dates": []}
NewHabit(now) == [created |-> now, done_dates |-> <<>>]

\* mark_done's test "if t in done_dates"
AlreadyDone_never(done_dates, t) == FALSE

AlreadyDone(done_dates, t) == Contains(done_dates, t)

add_habit_overwrite(d, chat_id, habit_name, now) ==
    LET user == get_user(d, chat_id)
    IN  [data |-> Put(d, chat_id,
                      [user EXCEPT !.habits = Put(@, habit_name, NewHabit(now))]),
         result |-> IF habit_name \in DOMAIN user.habits THEN "AlreadyExists" ELSE "Added",
         streak |-> 0]

\* add_habit: the store it saves and the text it returns
add_habit(d, chat_id, habit_name, now) ==
    LET user == get_user(d, chat_id)
    IN  IF habit_name \in DOMAIN user.habits
        THEN [data |-> d, result |-> "AlreadyExists", streak |-> 0]
        ELSE [data |-> Put(d, chat_id,
                           [user EXCEPT !.habits = Put(@, habit_name, NewHabit(now))]),
              result |-> "Added", streak |-> 0]

\* remove_habit: deletes the habit and pops its reminder entry, then saves;
\* it has no access to the job queue
remove_habit(d, chat_id, habit_name) ==
    LET user == get_user(d, chat_id)
    IN  IF habit_name \notin DOMAIN user.habits
        THEN [data |-> d, result |-> "NotFound", streak |-> 0]
        ELSE [data |-> Put(d, chat_id,
                           [habits |-> Del(user.habits, habit_name),
                            reminders |-> Del(user.reminders, habit_name)]),
              result |-> "Removed", streak |-> 0]

mark_done_reset(d, chat_id, habit_name, now) ==
    LET user == get_user(d, chat_id)
        had == habit_name \in DOMAIN user.habits
               /\ Contains(user.habits[habit_name].done_dates, now)
    IN  [data |-> IF had THEN d
                  ELSE Put(d, chat_id,
                           [user EXCEPT !.habits =
                               Put(@, habit_name,
                                   [created |-> now, done_dates |-> <<now>>])]),
         result |-> IF had THEN "AlreadyMarked" ELSE "Marked",
         streak |-> 1]

\* mark_done: creates the habit when absent, appends today unless present
mark_done(d, chat_id, habit_name, now) ==
    LET user == get_user(d, chat_id)
        habits == IF habit_name \in DOMAIN user.habits THEN user.habits
                  ELSE Put(user.habits, habit_name, NewHabit(now))
        done_dates == habits[habit_name].done_dates
        after == Append(done_dates, now)
    IN  IF AlreadyDone(done_dates, now)
        THEN [data |-> d, result |-> "AlreadyMarked",
              streak |-> compute_streak(done_dates, now)]
        ELSE [data |-> Put(d, chat_id,
                           [user EXCEPT !.habits =
                               Put(habits, habit_name,
                                   [habits[habit_name] EXCEPT !.done_dates = after])]),
              result |-> "Marked",
              streak |-> compute_streak(after, now)]

AddHabit(c, h) ==
    /\ pc.at = "idle"
    /\ LET r == add_habit(data, c, h, today)
       IN  /\ data' = r.data
           /\ event' = Ev("AddHabit", c, h, r.result, r.streak)
    /\ UNCHANGED <<jobs, today, clock, pc, mode>>

RemoveHabit(c, h) ==
    /\ pc.at = "idle"
    /\ LET r == remove_habit(data, c, h)
       IN  /\ data' = r.data
           /\ event' = Ev("RemoveHabit", c, h, r.result, r.streak)
    /\ UNCHANGED <<jobs, today, clock, pc, mode>>

MarkDone(c, h) ==
    /\ pc.at = "idle"
    /\ LET r == mark_done(data, c, h, today)
       IN  /\ data' = r.data
           /\ event' = Ev("MarkDone", c, h, r.result, r.streak)
    /\ UNCHANGED <<jobs, today, clock, pc, mode>>

\* ------------------------------------------------------------- bot handlers
\* handle_text, "напоминать <привычка> в HH:MM": schedule_reminder up to the
\* removal of the old jobs; a wrong time answers at once and saves nothing
ScheduleBegin(c, h, hhmm) ==
    /\ pc.at = "idle"
    /\ IF parse_hhmm(hhmm) = None
       THEN /\ event' = Ev("Schedule", c, h, "InvalidTime", 0)
            /\ UNCHANGED <<jobs, pc>>
       ELSE /\ jobs' = RemoveJobs(jobs, job_name(c, h))
            /\ pc' = [at |-> "run_daily", chat_id |-> c, habit_name |-> h, hhmm |-> hhmm]
            /\ event' = Ev("Schedule", c, h, "Running", 0)
    /\ UNCHANGED <<data, today, clock, mode>>

\* ... schedule_reminder's run_daily
ScheduleArm ==
    /\ pc.at = "run_daily"
    /\ jobs' = run_daily(jobs, pc.chat_id, pc.habit_name, parse_hhmm(pc.hhmm), today, clock)
    /\ pc' = [pc EXCEPT !.at = "save"]
    /\ UNCHANGED <<data, today, clock, event, mode>>

\* ... user.setdefault("reminders", {})[habit_name] = hhmm; save_data(data)
ScheduleSave ==
    /\ pc.at = "save"
    /\ LET user == get_user(data, pc.chat_id)
       IN  data' = Put(data, pc.chat_id,
                       [user EXCEPT !.reminders = Put(@, pc.habit_name, pc.hhmm)])
    /\ event' = Ev("Schedule", pc.chat_id, pc.habit_name, "Scheduled", 0)
    /\ pc' = Idle
    /\ UNCHANGED <<jobs, today, clock, mode>>

unschedule_reminder_keep(js, chat_id, habit_name) ==
    [jobs |-> js, removed |-> CountByName(js, job_name(chat_id, habit_name)) > 0]

\* unschedule_reminder: len(jobs) > 0 after the removal
unschedule_reminder(js, chat_id, habit_name) ==
    [jobs |-> RemoveJobs(js, job_name(chat_id, habit_name)),
     removed |-> CountByName(js, job_name(chat_id, habit_name)) > 0]

\* handle_text, "не напоминать <привычка>": pop the entry, save, unschedule
Unschedule(c, h) ==
    /\ pc.at = "idle"
    /\ LET user == get_user(data, c)
           r == unschedule_reminder(jobs, c, h)
       IN  /\ data' = Put(data, c, [user EXCEPT !.reminders = Del(@, h)])
           /\ jobs' = r.jobs
           /\ event' = Ev("Unschedule", c, h,
                          IF r.removed THEN "Removed" ELSE "NoReminder", 0)
    /\ UNCHANGED <<today, clock, pc, mode>>

\* ------------------------------------------------------------- timers
Due(j) == j.next_run < today \/ (j.next_run = today /\ MinuteOfDay(j.time) <= clock)

AfterRun_once(js, j, day) == js (-) SetToBag({j})

\* run_daily: a daily job after a run is the same job, next run one day later
AfterRun(js, j, day) ==
    (js (-) SetToBag({j})) (+) SetToBag({[j EXCEPT !.next_run = day + 1]})

reminder_job_callback_marks(d, j, now) == mark_done(d, j.chat_id, j.habit_name, now).data

\* reminder_job_callback: send_message to job.chat_id about job.data["habit_name"]
\* and nothing else: the store it leaves is the store it found
reminder_job_callback(d, j, now) == d

\* a due job runs; a failed delivery is an exception the job queue catches,
\* and the job stays scheduled
Fire(j, delivered) ==
    /\ pc.at = "idle"
    /\ BagIn(j, jobs)
    /\ Due(j)
    /\ data' = reminder_job_callback(data, j, today)
    /\ jobs' = AfterRun(jobs, j, today)
    /\ event' = Ev("Fire", j.chat_id, j.habit_name,
                   IF delivered THEN "Sent" ELSE "Failed", 0)
    /\ UNCHANGED <<today, clock, pc, mode>>

\* time passes to the next instant of interest; due jobs run first
Tick ==
    /\ pc.at = "idle"
    /\ \A j \in BagToSet(jobs) : ~Due(j)
    /\ IF \E m \in ClockPoints : m > clock
       THEN /\ clock' = CHOOSE m \in ClockPoints :
                            m > clock /\ \A n \in ClockPoints : n > clock => m <= n
            /\ UNCHANGED today
       ELSE /\ today < MaxDay
            /\ today' = today + 1
            /\ clock' = 0
    /\ event' = Ev("Tick", 0, <<>>, "", 0)
    /\ UNCHANGED <<data, jobs, pc, mode>>

Next ==
    \/ RestoreAll
    \/ Restart
    \/ \E c \in Chats, h \in HabitNames : AddHabit(c, h)
    \/ \E c \in Chats, h \in HabitNames : RemoveHabit(c, h)
    \/ \E c \in Chats, h \in HabitNames : MarkDone(c, h)
    \/ \E c \in Chats, h \in HabitNames, x \in HHMMInputs : ScheduleBegin(c, h, x)
    \/ ScheduleArm
    \/ ScheduleSave
    \/ \E c \in Chats, h \in HabitNames : Unschedule(c, h)
    \/ \E j \in BagToSet(jobs), delivered \in BOOLEAN : Fire(j, delivered)
    \/ Tick

Spec == Init /\ [][Next]_vars

\* ------------------------------------------------------------- reports
\* list_habits: for each habit its streak and its number of completions; no
\* lines when the user has no habits
list_habits(d, chat_id, now) ==
    LET habits == get_user(d, chat_id).habits
    IN  [h \in DOMAIN habits |->
            [streak |-> compute_streak(habits[h].done_dates, now),
             done_total |-> Len(habits[h].done_dates)]]

\* stats: for each habit len(set(done_dates) & window) and its streak
stats(d, chat_id, now) ==
    LET habits == get_user(d, chat_id).habits
    IN  [h \in DOMAIN habits |->
            [count_7 |-> Cardinality(ToSet(habits[h].done_dates)
                                        \cap last_7_days_window(now)),
             streak |-> compute_streak(habits[h].done_dates, now)]]

\* handle_text, "список": the reply is list_habits(chat_id); nothing is saved
ListHabits(c) ==
    /\ pc.at = "idle"
    /\ event' = Ev("ListHabits", c, <<>>, list_habits(data, c, today), 0)
    /\ UNCHANGED <<data, jobs, today, clock, pc, mode>>

\* handle_text, "статистика": the reply is stats(chat_id); nothing is saved
Stats(c) ==
    /\ pc.at = "idle"
    /\ event' = Ev("Stats", c, <<>>, stats(data, c, today), 0)
    /\ UNCHANGED <<data, jobs, today, clock, pc, mode>>

\* the dates of S in the order mark_done appends them: ascending
RECURSIVE SortedSeq(_)
SortedSeq(S) ==
    IF S = {} THEN <<>>
    ELSE LET m == CHOOSE x \in S : \A y \in S : y <= x
         IN  Append(SortedSeq(S \ {m}), m)

\* a store where user 1 has one habit, created on day 0, with any completion
\* dates up to the current day, which is any day up to MaxStatsDay
InitStats ==
    /\ today \in 0..MaxStatsDay
    /\ \E S \in SUBSET (0..today) :
          data = Put(EmptyMap, 1,
                     [habits |-> Put(EmptyMap, Run,
                                     [created |-> 0, done_dates |-> SortedSeq(S)]),
                      reminders |-> EmptyMap])
    /\ jobs = EmptyBag
    /\ clock = 0
    /\ pc = Idle
    /\ event = Ev("Start", 0, <<>>, "", 0)
    /\ mode = NoMode

NextStats ==
    \/ \E c \in Chats : ListHabits(c)
    \/ \E c \in Chats : Stats(c)

SpecStats == InitStats /\ [][NextStats]_vars

\* one run of the process: every operation of a user, the two read-only
\* reports included, with the timers firing as the days pass
NextOps ==
    \/ RestoreAll
    \/ \E c \in Chats, h \in HabitNames : AddHabit(c, h)
    \/ \E c \in Chats, h \in HabitNames : RemoveHabit(c, h)
    \/ \E c \in Chats, h \in HabitNames : MarkDone(c, h)
    \/ \E c \in Chats, h \in HabitNames, x \in HHMMInputs : ScheduleBegin(c, h, x)
    \/ ScheduleArm
    \/ ScheduleSave
    \/ \E c \in Chats, h \in HabitNames : Unschedule(c, h)
    \/ \E c \in Chats : ListHabits(c)
    \/ \E c \in Chats : Stats(c)
    \/ \E j \in BagToSet(jobs), delivered \in BOOLEAN : Fire(j, delivered)
    \/ Tick

SpecOps == Init /\ [][NextOps]_vars

\* ------------------------------------------------------------- free text
Whitespace == {" ", "\t"}

\* str.lower on the letters the inputs use
lower(ch) == CASE ch = "A" -> "a" [] ch = "B" -> "b" [] OTHER -> ch

Lowered(s) == [i \in 1..Len(s) |-> lower(s[i])]

\* str.strip: the text without its leading and trailing whitespace
RECURSIVE lstrip(_)
lstrip(s) == IF s # <<>> /\ Head(s) \in Whitespace THEN lstrip(Tail(s)) ELSE s

RECURSIVE rstrip(_)
rstrip(s) ==
    IF s # <<>> /\ s[Len(s)] \in Whitespace THEN rstrip(SubSeq(s, 1, Len(s) - 1)) ELSE s

strip(s) == rstrip(lstrip(s))

\* str.split(): the maximal runs of non-whitespace characters
RECURSIVE SplitFrom(_, _, _)
SplitFrom(rest, cur, acc) ==
    LET closed == IF cur = <<>> THEN acc ELSE Append(acc, cur)
    IN  IF rest = <<>> THEN closed
        ELSE IF Head(rest) \in Whitespace THEN SplitFrom(Tail(rest), <<>>, closed)
        ELSE SplitFrom(Tail(rest), Append(cur, Head(rest)), acc)

split(s) == SplitFrom(s, <<>>, <<>>)

\* " ".join(words)
RECURSIVE join(_)
join(words) ==
    IF words = <<>> THEN <<>>
    ELSE IF Len(words) = 1 THEN words[1]
    ELSE words[1] \o <<" ">> \o join(Tail(words))

norm_cased(text) == join(split(strip(text)))

\* norm: " ".join(text.strip().lower().split())
norm(text) == join(split(Lowered(strip(text))))

\* messages a user types as a habit name: "A  b", "a b", " a<TAB>B ", "ab",
\* "AB" and "Ab "
RawAsp2b == <<"A", " ", " ", "b">>
Rawasp1b == <<"a", " ", "b">>
RawPadded == <<" ", "a", "\t", "B", " ">>
Rawab == <<"a", "b">>
RawAB == <<"A", "B">>
RawAbTail == <<"A", "b", " ">>
RawTexts == {RawAsp2b, Rawasp1b, RawPadded, Rawab, RawAB, RawAbTail}

\* the chat the free-text runs follow
TextChats == {1}

\* the buttons of the keyboard that wait for a habit name
Modes == {"add", "done", "remove"}

\* handle_text, the buttons "Добавить", "Отметить", "Удалить":
\* user_data["mode"] is set and the name is asked for
Button(c, m) ==
    /\ pc.at = "idle"
    /\ mode' = [mode EXCEPT ![c] = m]
    /\ event' = Ev("Button", c, <<>>, m, 0)
    /\ UNCHANGED <<data, jobs, today, clock, pc>>

\* start: context.user_data.clear()
StartCommand(c) ==
    /\ pc.at = "idle"
    /\ mode' = [mode EXCEPT ![c] = "none"]
    /\ event' = Ev("StartCommand", c, <<>>, "", 0)
    /\ UNCHANGED <<data, jobs, today, clock, pc>>

default_op_add(habits, habit_name) == "add"

\* handle_text, the last branch: mark the habit when it exists, add it when
\* it does not
default_op(habits, habit_name) ==
    IF habit_name \in DOMAIN habits THEN "done" ELSE "add"

\* handle_text: a pending mode decides what the text is for, before anything
\* else
route(m, habits, habit_name) ==
    IF m \in Modes THEN m ELSE default_op(habits, habit_name)

OpName(op) ==
    CASE op = "add" -> "AddHabit" [] op = "done" -> "MarkDone" [] op = "remove" -> "RemoveHabit"

\* handle_text on a message that is no button, no command and no reminder
\* phrase
HandleText(c, raw) ==
    /\ pc.at = "idle"
    /\ strip(raw) # <<>>
    /\ LET habit_name == norm(raw)
           op == route(mode[c], get_user(data, c).habits, habit_name)
           r == CASE op = "add" -> add_habit(data, c, habit_name, today)
                  [] op = "done" -> mark_done(data, c, habit_name, today)
                  [] op = "remove" -> remove_habit(data, c, habit_name)
       IN  /\ data' = r.data
           /\ event' = Ev(OpName(op), c, habit_name, r.result, r.streak)
    /\ mode' = [mode EXCEPT ![c] = "none"]
    /\ UNCHANGED <<jobs, today, clock, pc>>

\* handle_text, "напоминать <raw> в <hhmm>" with no mode pending
TextSchedule(c, raw, hhmm) ==
    /\ mode[c] = "none"
    /\ ScheduleBegin(c, norm(raw), hhmm)

\* handle_text, "не напоминать <raw>" with no mode pending
TextUnschedule(c, raw) ==
    /\ mode[c] = "none"
    /\ Unschedule(c, norm(raw))

\* one day of one chat: buttons, /start, free text and reminder phrases
NextText ==
    \/ RestoreAll
    \/ \E c \in TextChats, m \in Modes : Button(c, m)
    \/ \E c \in TextChats : StartCommand(c)
    \/ \E c \in TextChats, raw \in RawTexts : HandleText(c, raw)
    \/ \E c \in TextChats, raw \in RawTexts, x \in HHMMInputs : TextSchedule(c, raw, x)
    \/ ScheduleArm
    \/ ScheduleSave
    \/ \E c \in TextChats, raw \in RawTexts : TextUnschedule(c, raw)

SpecText == Init /\ [][NextText]_vars

\* ------------------------------------------------------------- storage faults
\* how a save_data call can end: written in full; open(DATA_FILE, "w") raises
\* and the file is as it was; or the file is truncated by open and the write
\* raises before the document is complete
Faults == {"none", "open", "write"}

\* save_data, then load_data on the file it leaves: a truncated or partial
\* document is no JSON, and load_data answers {"users": {}} for it
save_data(before, after, fault) ==
    CASE fault = "none" -> after
      [] fault = "open" -> before
      [] fault = "write" -> EmptyMap

Saving == {"Added", "Removed", "Marked"}

\* add_habit, remove_habit and mark_done with the outcome of their save_data
\* call; the exception of a failed save ends the handler
LedgerSave(op, r, c, h, fault) ==
    /\ pc.at = "idle"
    /\ IF r.result \in Saving
       THEN /\ data' = save_data(data, r.data, fault)
            /\ event' = Ev(op, c, h, IF fault = "none" THEN r.result ELSE "SaveFailed",
                           IF fault = "none" THEN r.streak ELSE 0)
       ELSE /\ data' = data
            /\ event' = Ev(op, c, h, r.result, r.streak)
    /\ UNCHANGED <<jobs, today, clock, pc, mode>>

AddHabitSave(c, h, fault) ==
    LedgerSave("AddHabit", add_habit(data, c, h, today), c, h, fault)

RemoveHabitSave(c, h, fault) ==
    LedgerSave("RemoveHabit", remove_habit(data, c, h), c, h, fault)

MarkDoneSave(c, h, fault) ==
    LedgerSave("MarkDone", mark_done(data, c, h, today), c, h, fault)

\* the store handle_text hands to save_data after schedule_reminder
WithReminder(d, c, h, hhmm) ==
    LET user == get_user(d, c)
    IN  Put(d, c, [user EXCEPT !.reminders = Put(@, h, hhmm)])

\* handle_text, "напоминать <привычка> в HH:MM", from the first line to the
\* last: schedule_reminder replaces the timer, then save_data is called
ScheduleWithSave(c, h, hhmm, fault) ==
    /\ pc.at = "idle"
    /\ IF parse_hhmm(hhmm) = None
       THEN /\ event' = Ev("Schedule", c, h, "InvalidTime", 0)
            /\ UNCHANGED <<data, jobs>>
       ELSE /\ jobs' = schedule_reminder(jobs, c, h, hhmm, today, clock)
            /\ data' = save_data(data, WithReminder(data, c, h, hhmm), fault)
            /\ event' = Ev("Schedule", c, h,
                           IF fault = "none" THEN "Scheduled" ELSE "SaveFailed", 0)
    /\ UNCHANGED <<today, clock, pc, mode>>

\* handle_text, "не напоминать <привычка>": save_data comes first, and
\* unschedule_reminder is not reached when it raises
UnscheduleSave(c, h, fault) ==
    /\ pc.at = "idle"
    /\ LET user == get_user(data, c)
           r == unschedule_reminder(jobs, c, h)
       IN  /\ data' = save_data(data, Put(data, c, [user EXCEPT !.reminders = Del(@, h)]),
                                fault)
           /\ IF fault = "none"
              THEN /\ jobs' = r.jobs
                   /\ event' = Ev("Unschedule", c, h,
                                  IF r.removed THEN "Removed" ELSE "NoReminder", 0)
              ELSE /\ jobs' = jobs
                   /\ event' = Ev("Unschedule", c, h, "SaveFailed", 0)
    /\ UNCHANGED <<today, clock, pc, mode>>

\* one day of the process with a disk that can fail any save
NextSave ==
    \/ RestoreAll
    \/ \E c \in Chats, h \in HabitNames, f \in Faults : AddHabitSave(c, h, f)
    \/ \E c \in Chats, h \in HabitNames, f \in Faults : RemoveHabitSave(c, h, f)
    \/ \E c \in Chats, h \in HabitNames, f \in Faults : MarkDoneSave(c, h, f)
    \/ \E c \in Chats, h \in HabitNames, x \in HHMMInputs, f \in Faults :
          ScheduleWithSave(c, h, x, f)
    \/ \E c \in Chats, h \in HabitNames, f \in Faults : UnscheduleSave(c, h, f)

SpecSave == Init /\ [][NextSave]_vars

\* ------------------------------------------------------------- properties
Keys == Chats \X HabitNames

HasReminder(c, h) == c \in DOMAIN data /\ h \in DOMAIN data[c].reminders

HasHabit(c, h) == c \in DOMAIN data /\ h \in DOMAIN data[c].habits

\* number of live timers of (c, h)
Live(c, h) == CountByName(jobs, job_name(c, h))

\* the fire times of the live timers of (c, h)
LiveTimes(c, h) == {j.time : j \in get_jobs_by_name(jobs, job_name(c, h))}

\* the fire time the store holds for (c, h)
StoredTime(c, h) == parse_hhmm(data[c].reminders[h])

\* the live timers as (key, fire time) pairs with their multiplicity,
\* whatever their next run
TimerBag(js) ==
    LET S == {<<j.name, j.time>> : j \in BagToSet(js)}
    IN  [x \in S |-> BagCardinality(
            [j \in {k \in BagToSet(js) : <<k.name, k.time>> = x} |-> js[j]])]

\* the step reports operation op of (c, h)
Reports(op, c, h) ==
    event'.op = op /\ event'.chat_id = c /\ event'.habit_name = h

\* C1: between operations, (c, h) has a live timer at time t if and only if
\* the store's reminder map of c maps h to t.
C1_TimersFromStore ==
    pc.at = "idle" =>
        \A k \in Keys :
            LiveTimes(k[1], k[2]) =
                (IF HasReminder(k[1], k[2]) THEN {StoredTime(k[1], k[2])} ELSE {})

\* C2: no key ever has two live timers, also between the steps of Schedule;
\* after the run_daily of Schedule(c, h, t) the one live timer of (c, h) fires
\* at t, and so it does when Schedule has completed.
C2_OneTimerPerKey ==
    /\ \A k \in Keys : Live(k[1], k[2]) <= 1
    /\ pc.at = "save" =>
          /\ Live(pc.chat_id, pc.habit_name) = 1
          /\ LiveTimes(pc.chat_id, pc.habit_name) = {parse_hhmm(pc.hhmm)}
    /\ (pc.at = "idle" /\ event.op = "Schedule" /\ event.result = "Scheduled") =>
          /\ Live(event.chat_id, event.habit_name) = 1
          /\ LiveTimes(event.chat_id, event.habit_name)
                = {StoredTime(event.chat_id, event.habit_name)}

\* a second Schedule of a key with another time has armed its timer: the store
\* still holds the first time, the one live timer fires at the second
C2_Witness ==
    /\ pc.at = "save"
    /\ HasReminder(pc.chat_id, pc.habit_name)
    /\ StoredTime(pc.chat_id, pc.habit_name) # parse_hhmm(pc.hhmm)
    /\ LiveTimes(pc.chat_id, pc.habit_name) = {parse_hhmm(pc.hhmm)}

\* C3: right after RestoreAll every persisted reminder has exactly one live
\* timer, at its persisted time, and no other key has a live timer.
C3_RestoreFidelity ==
    event.op = "RestoreAll" =>
        \A k \in Keys :
            IF HasReminder(k[1], k[2])
            THEN /\ Live(k[1], k[2]) = 1
                 /\ LiveTimes(k[1], k[2]) = {StoredTime(k[1], k[2])}
            ELSE Live(k[1], k[2]) = 0

\* a restart on a later day with reminders of two users persisted, at
\* different times
C3_Witness ==
    /\ event.op = "RestoreAll"
    /\ today > 0
    /\ \E k1, k2 \in Keys :
          /\ HasReminder(k1[1], k1[2]) /\ HasReminder(k2[1], k2[2])
          /\ StoredTime(k1[1], k1[2]) # StoredTime(k2[1], k2[2])
          /\ Live(k1[1], k1[2]) = 1 /\ Live(k2[1], k2[2]) = 1

\* C4: a successful RemoveHabit(c, h) leaves no reminder entry for (c, h), and
\* no reminder of (c, h) fires while the store has no entry for it, which is
\* from the removal until Schedule(c, h, _) writes one again.
C4_RemoveDestroysReminder ==
    [][ /\ \A k \in Keys :
              (Reports("RemoveHabit", k[1], k[2]) /\ RemoveHabit(k[1], k[2])
                 /\ event'.result = "Removed")
                  => ~HasReminder(k[1], k[2])'
        /\ \A j \in BagToSet(jobs) : \A delivered \in BOOLEAN :
              (Reports("Fire", j.chat_id, j.habit_name) /\ Fire(j, delivered))
                  => HasReminder(j.chat_id, j.habit_name)
      ]_vars

\* C5: Unschedule(c, h) leaves no live timer and no reminder entry for (c, h)
\* and reports "existed" exactly when a timer of (c, h) was live, which it is
\* whenever a reminder is persisted; a key with no timer and no entry gets a
\* timer or an entry only from Schedule of that key.
C5_Unschedule ==
    [][ \A k \in Keys :
          /\ (Reports("Unschedule", k[1], k[2]) /\ Unschedule(k[1], k[2])) =>
                /\ Live(k[1], k[2])' = 0
                /\ ~HasReminder(k[1], k[2])'
                /\ (event'.result = "Removed") = (Live(k[1], k[2]) > 0)
                /\ HasReminder(k[1], k[2]) => event'.result = "Removed"
          /\ (~HasReminder(k[1], k[2]) /\ Live(k[1], k[2]) = 0) =>
                \/ Live(k[1], k[2])' = 0 /\ ~HasReminder(k[1], k[2])'
                \/ /\ pc.at \in {"run_daily", "save"}
                   /\ pc.chat_id = k[1] /\ pc.habit_name = k[2]
      ]_vars

\* Unschedule has cancelled a reminder that was persisted and live
C5_Witness ==
    /\ event.op = "Unschedule"
    /\ event.result = "Removed"
    /\ Live(event.chat_id, event.habit_name) = 0
    /\ ~HasReminder(event.chat_id, event.habit_name)

\* the hour and the minute an "H:MM" or "HH:MM" text names
HourOf(x) ==
    IF Len(x) = 4 THEN DigitVal(x[1]) ELSE 10 * DigitVal(x[1]) + DigitVal(x[2])

MinuteOf(x) == 10 * DigitVal(x[Len(x) - 1]) + DigitVal(x[Len(x)])

OutOfRange == {x \in HHMMInputs : HourOf(x) > 23 \/ MinuteOf(x) > 59}

\* C6: Schedule with an hour above 23 or a minute above 59 answers InvalidTime
\* and changes neither the store nor any timer.
C6_InvalidTime ==
    [][ \A k \in Keys : \A x \in OutOfRange :
          (Reports("Schedule", k[1], k[2]) /\ ScheduleBegin(k[1], k[2], x)) =>
              /\ event' = Ev("Schedule", k[1], k[2], "InvalidTime", 0)
              /\ UNCHANGED <<data, jobs, pc, mode>>
      ]_vars

\* InvalidTime was answered for a key with a persisted reminder whose timer
\* is live at its old time
C6_Witness ==
    /\ event.op = "Schedule"
    /\ event.result = "InvalidTime"
    /\ HasReminder(event.chat_id, event.habit_name)
    /\ LiveTimes(event.chat_id, event.habit_name)
          = {StoredTime(event.chat_id, event.habit_name)}

\* C7: a live timer is never overdue and never more than a day ahead; it fires
\* on its day at its time, whatever the completion dates are, and stays live
\* with the same time and the next day as its next run.
C7_DailyFiring ==
    /\ [](pc.at = "idle" =>
            \A j \in BagToSet(jobs) :
                /\ j.next_run \in {today, today + 1}
                /\ j.next_run = today => MinuteOfDay(j.time) >= clock)
    /\ [][ \A j \in BagToSet(jobs) : \A delivered \in BOOLEAN :
              (Reports("Fire", j.chat_id, j.habit_name) /\ Fire(j, delivered)) =>
                  /\ j.next_run = today
                  /\ MinuteOfDay(j.time) = clock
                  /\ jobs' = (jobs (-) SetToBag({j}))
                                (+) SetToBag({[j EXCEPT !.next_run = today + 1]})
         ]_vars

\* a reminder has fired on the second day for a habit already marked done
\* that day
C7_Witness ==
    /\ event.op = "Fire"
    /\ today > 0
    /\ HasHabit(event.chat_id, event.habit_name)
    /\ Contains(data[event.chat_id].habits[event.habit_name].done_dates, today)
    /\ \E j \in get_jobs_by_name(jobs, job_name(event.chat_id, event.habit_name)) :
          j.next_run = today + 1

\* C8: a firing, delivered or not, leaves the store and the live timers (their
\* keys and fire times) as they were; it only reports the notification of its
\* (user, habit).
C8_FiringFrame ==
    [][ \A j \in BagToSet(jobs) : \A delivered \in BOOLEAN :
          (Reports("Fire", j.chat_id, j.habit_name) /\ Fire(j, delivered)) =>
              /\ data' = data
              /\ TimerBag(jobs') = TimerBag(jobs)
              /\ event' = Ev("Fire", j.chat_id, j.habit_name,
                             IF delivered THEN "Sent" ELSE "Failed", 0)
      ]_vars

\* a delivery has failed for a habit that exists and has a persisted reminder
C8_Witness ==
    /\ event.op = "Fire"
    /\ event.result = "Failed"
    /\ HasHabit(event.chat_id, event.habit_name)
    /\ HasReminder(event.chat_id, event.habit_name)
    /\ Live(event.chat_id, event.habit_name) = 1

\* number of times x occurs in the list s
Occurrences(s, x) == Cardinality({i \in 1..Len(s) : s[i] = x})

DoneDates(c, h) == data[c].habits[h].done_dates

\* C9: MarkDone of a habit already marked today leaves the store unchanged,
\* with today once in the completion list, and reports the streak of that
\* list; called right after a MarkDone of the same habit it reports the same
\* streak.
C9_MarkDoneIdempotent ==
    [][ \A k \in Keys :
          (Reports("MarkDone", k[1], k[2]) /\ MarkDone(k[1], k[2])
             /\ HasHabit(k[1], k[2]) /\ Contains(DoneDates(k[1], k[2]), today)) =>
              /\ data' = data
              /\ Occurrences(DoneDates(k[1], k[2])', today) = 1
              /\ event'.result = "AlreadyMarked"
              /\ event'.streak = StreakFrom(ToSet(DoneDates(k[1], k[2])), today)
              /\ (event.op = "MarkDone" /\ event.chat_id = k[1]
                    /\ event.habit_name = k[2]) => event'.streak = event.streak
      ]_vars

\* a second MarkDone on a day that continues a streak
C9_Witness ==
    /\ event.op = "MarkDone"
    /\ event.result = "AlreadyMarked"
    /\ event.streak = 2
    /\ Occurrences(DoneDates(event.chat_id, event.habit_name), today) = 1

\* C10: MarkDone of a habit the user does not have reports no error: the
\* stored habit is created today with today as its only completion date, the
\* reported streak is 1, and nothing else in the store changes.
C10_MarkDoneCreates ==
    [][ \A k \in Keys :
          (Reports("MarkDone", k[1], k[2]) /\ MarkDone(k[1], k[2])
             /\ ~HasHabit(k[1], k[2])) =>
              /\ HasHabit(k[1], k[2])'
              /\ data'[k[1]].habits[k[2]] = [created |-> today, done_dates |-> <<today>>]
              /\ data'[k[1]].reminders = get_user(data, k[1]).reminders
              /\ \A c \in Chats \ {k[1]} :
                    /\ (c \in DOMAIN data') = (c \in DOMAIN data)
                    /\ c \in DOMAIN data => data'[c] = data[c]
              /\ event' = Ev("MarkDone", k[1], k[2], "Marked", 1)
      ]_vars

\* MarkDone has created a habit on the second day: created that day, marked
\* that day, streak 1
C10_Witness ==
    /\ event = Ev("MarkDone", event.chat_id, event.habit_name, "Marked", 1)
    /\ today > 0
    /\ HasHabit(event.chat_id, event.habit_name)
    /\ data[event.chat_id].habits[event.habit_name]
          = [created |-> today, done_dates |-> <<today>>]

\* C11: AddHabit of a habit the user has answers AlreadyExists, RemoveHabit of
\* a habit the user does not have answers NotFound, and either leaves the
\* store (creation dates, completion lists, reminders) and all timers as
\* they were.
C11_FailingLedgerOps ==
    [][ \A k \in Keys :
          /\ (Reports("AddHabit", k[1], k[2]) /\ AddHabit(k[1], k[2])
                /\ HasHabit(k[1], k[2])) =>
                /\ event'.result = "AlreadyExists"
                /\ data' = data
                /\ jobs' = jobs
          /\ (Reports("RemoveHabit", k[1], k[2]) /\ RemoveHabit(k[1], k[2])
                /\ ~HasHabit(k[1], k[2])) =>
                /\ event'.result = "NotFound"
                /\ data' = data
                /\ jobs' = jobs
      ]_vars

\* AlreadyExists was answered for a habit created on an earlier day that has
\* a completion date
C11_Witness ==
    /\ event.op = "AddHabit"
    /\ event.result = "AlreadyExists"
    /\ HasHabit(event.chat_id, event.habit_name)
    /\ data[event.chat_id].habits[event.habit_name].created < today
    /\ DoneDates(event.chat_id, event.habit_name) # <<>>

\* C19: in every state each completion list holds no date twice and no date
\* after the current day.
C19_CompletionDates ==
    \A k \in Keys :
        HasHabit(k[1], k[2]) =>
            LET s == DoneDates(k[1], k[2])
            IN  /\ \A i, j \in 1..Len(s) : s[i] = s[j] => i = j
                /\ \A i \in 1..Len(s) : s[i] <= today

\* a habit marked on two days, on the later one
C19_Witness ==
    \E k \in Keys :
        /\ HasHabit(k[1], k[2])
        /\ Len(DoneDates(k[1], k[2])) = 2
        /\ today > 0
        /\ event.op = "MarkDone"
        /\ event.result = "AlreadyMarked"

\* s is the beginning of t
IsPrefix(s, t) == Len(s) <= Len(t) /\ SubSeq(t, 1, Len(s)) = s

\* C20: across any step that keeps a habit, its creation date stays and its
\* completion list only grows at the end; the list grows only by the current
\* day, appended by a MarkDone of that habit.
C20_HistoryKept ==
    [][ \A k \in Keys :
          (HasHabit(k[1], k[2]) /\ HasHabit(k[1], k[2])') =>
              LET old == data[k[1]].habits[k[2]]
                  new == data'[k[1]].habits[k[2]]
              IN  /\ new.created = old.created
                  /\ IsPrefix(old.done_dates, new.done_dates)
                  /\ new.done_dates # old.done_dates =>
                        /\ new.done_dates = Append(old.done_dates, today)
                        /\ Reports("MarkDone", k[1], k[2])
                        /\ MarkDone(k[1], k[2])
      ]_vars

\* a habit created on an earlier day and marked then has been marked again
C20_Witness ==
    /\ event.op = "MarkDone"
    /\ event.result = "Marked"
    /\ event.streak = 2
    /\ data[event.chat_id].habits[event.habit_name].created < today
    /\ Len(DoneDates(event.chat_id, event.habit_name)) = 2

\* the length of the run of consecutive days in S that ends at day d
RunEndingAt(S, d) ==
    CHOOSE n \in 0..(Cardinality(S) + 1) :
        /\ \A i \in 0..(n - 1) : (d - i) \in S
        /\ (d - n) \notin S

\* C12: the streak ListHabits and Stats report for a habit is the length of
\* the run of consecutive completed days ending today: 0 when today is not
\* completed, and cut at the first missing day.
C12_Streak ==
    event.op \in {"ListHabits", "Stats"} =>
        \A h \in DOMAIN event.result :
            LET S == ToSet(data[event.chat_id].habits[h].done_dates)
            IN  /\ event.result[h].streak = RunEndingAt(S, today)
                /\ today \notin S => event.result[h].streak = 0
                /\ (today \in S /\ (today - 1) \notin S) => event.result[h].streak = 1

\* a streak of 0 is reported on a day not completed that follows three
\* completed days
C12_Witness ==
    /\ event.op = "Stats"
    /\ \E h \in DOMAIN event.result :
          LET S == ToSet(data[event.chat_id].habits[h].done_dates)
          IN  /\ today \notin S
              /\ {today - 1, today - 2, today - 3} \subseteq S
              /\ event.result[h].streak = 0

\* C13: the 7-day count Stats reports for a habit is the number of distinct
\* completion dates from today - 6 to today; it is at most 7.
C13_Window ==
    event.op = "Stats" =>
        \A h \in DOMAIN event.result :
            LET S == ToSet(data[event.chat_id].habits[h].done_dates)
            IN  /\ event.result[h].count_7
                      = Cardinality({d \in S : today - 6 <= d /\ d <= today})
                /\ event.result[h].count_7 <= 7

\* nine days completed in a row, the oldest two outside the window: 7 counted
C13_Witness ==
    /\ event.op = "Stats"
    /\ \E h \in DOMAIN event.result :
          /\ Len(data[event.chat_id].habits[h].done_dates) = 9
          /\ event.result[h].count_7 = 7

\* the operations a user invokes
UserOps == {"AddHabit", "RemoveHabit", "MarkDone", "Schedule", "Unschedule",
            "ListHabits", "Stats"}

\* the live timers of user c
JobsOf(js, c) ==
    LET S == {j \in BagToSet(js) : j.chat_id = c}
    IN  [j \in S |-> js[j]]

\* C18: a step of an operation invoked for user c leaves every other user's
\* record (habits, completion dates, reminders), its presence in the store
\* and its live timers as they were.
C18_OtherUsers ==
    [][ \A c \in Chats :
          (event'.op \in UserOps /\ event'.chat_id = c) =>
              \A o \in Chats \ {c} :
                  /\ (o \in DOMAIN data') = (o \in DOMAIN data)
                  /\ o \in DOMAIN data => data'[o] = data[o]
                  /\ JobsOf(jobs', o) = JobsOf(jobs, o)
      ]_vars

\* a user has removed a habit while another user has a habit with a
\* completion date, a persisted reminder and a live timer
C18_Witness ==
    /\ event.op = "RemoveHabit"
    /\ event.result = "Removed"
    /\ \E o \in Chats \ {event.chat_id} : \E h \in HabitNames :
          /\ HasHabit(o, h) /\ DoneDates(o, h) # <<>>
          /\ HasReminder(o, h)
          /\ Live(o, h) = 1

\* the step does to the store and reports what r says, as operation op on
\* habit h of chat c, and touches no timer
HandledAs(r, op, c, h) ==
    /\ data' = r.data
    /\ event' = Ev(op, c, h, r.result, r.streak)
    /\ jobs' = jobs

\* free text is marked when a habit of that name exists and added otherwise
ByExistence(c, h) ==
    IF HasHabit(c, h)
    THEN HandledAs(mark_done(data, c, h, today), "MarkDone", c, h)
    ELSE HandledAs(add_habit(data, c, h, today), "AddHabit", c, h)

\* C14 as stated: free text that is no keyword and no reminder phrase is
\* handled as MarkDone when its normalized form names a habit of the user and
\* as AddHabit otherwise.
C14_FreeText ==
    [][ \A c \in TextChats : \A raw \in RawTexts :
          (event'.chat_id = c /\ HandleText(c, raw)) => ByExistence(c, norm(raw))
      ]_vars

\* C14, amended: free text that is no keyword and no reminder phrase, received
\* while no button mode (add, done, remove) is pending in the chat, is handled
\* as MarkDone when its normalized form names a habit of the user and as
\* AddHabit otherwise; after it the habit exists, and it is marked done today
\* when it existed before, so the same new text sent twice in a row ends with
\* the habit existing and marked done today.
C14_FreeTextNoMode ==
    [][ \A c \in TextChats : \A raw \in RawTexts :
          (event'.chat_id = c /\ mode[c] = "none" /\ HandleText(c, raw)) =>
              LET h == norm(raw)
              IN  /\ ByExistence(c, h)
                  /\ c \in DOMAIN data' /\ h \in DOMAIN data'[c].habits
                  /\ HasHabit(c, h) => Contains(data'[c].habits[h].done_dates, today)
      ]_vars

\* with no mode pending, a text was marked done on the day its habit was
\* created: the habit exists with today as its only completion date
C14_Witness ==
    /\ event.op = "MarkDone"
    /\ event.result = "Marked"
    /\ event.chat_id \in TextChats
    /\ mode[event.chat_id] = "none"
    /\ event.habit_name \in {norm(raw) : raw \in RawTexts}
    /\ HasHabit(event.chat_id, event.habit_name)
    /\ data[event.chat_id].habits[event.habit_name].created = today
    /\ DoneDates(event.chat_id, event.habit_name) = <<today>>

\* the normalized form of each input, written out: "a b" and "ab"
Expected(raw) ==
    CASE raw \in {RawAsp2b, Rawasp1b, RawPadded} -> <<"a", " ", "b">>
      [] raw \in {Rawab, RawAB, RawAbTail} -> <<"a", "b">>

SameName(raw) == {other \in RawTexts : Expected(other) = Expected(raw)}

\* C15: normalization lower-cases, trims and collapses whitespace runs, and
\* is idempotent; add, mark-done and remove (by free text), schedule and
\* unschedule act on the habit record and reminder key of the normalized
\* name, so inputs with the same normalized form make the same step.
C15_NormalizedNames ==
    /\ \A raw \in RawTexts :
          norm(raw) = Expected(raw) /\ norm(norm(raw)) = norm(raw)
    /\ [][ \A c \in TextChats :
             /\ event'.op \in {"AddHabit", "MarkDone", "RemoveHabit"} =>
                   \A raw \in RawTexts :
                       HandleText(c, raw) =>
                           /\ event'.habit_name = Expected(raw)
                           /\ \A other \in SameName(raw) : HandleText(c, other)
             /\ event'.op = "Schedule" =>
                   \A raw \in RawTexts : \A x \in HHMMInputs :
                       TextSchedule(c, raw, x) =>
                           /\ event'.habit_name = Expected(raw)
                           /\ \A other \in SameName(raw) : TextSchedule(c, other, x)
             /\ event'.op = "Unschedule" =>
                   \A raw \in RawTexts :
                       TextUnschedule(c, raw) =>
                           /\ event'.habit_name = Expected(raw)
                           /\ \A other \in SameName(raw) : TextUnschedule(c, other)
         ]_vars

\* the habit "a b" was marked done while its reminder is persisted and live
\* under the same name, and no other spelling of it is a key of the store
C15_Witness ==
    /\ event.op = "MarkDone"
    /\ event.habit_name = <<"a", " ", "b">>
    /\ \E c \in TextChats :
          /\ HasHabit(c, <<"a", " ", "b">>)
          /\ HasReminder(c, <<"a", " ", "b">>)
          /\ Live(c, <<"a", " ", "b">>) = 1
          /\ DOMAIN data[c].habits \subseteq {Expected(raw) : raw \in RawTexts}
          /\ DOMAIN data[c].reminders \subseteq {Expected(raw) : raw \in RawTexts}

\* the reminder entry the store holds for (c, h): its text, or nothing
StoredEntry(d, c, h) ==
    IF c \in DOMAIN d /\ h \in DOMAIN d[c].reminders THEN {d[c].reminders[h]} ELSE {}

\* the live timers of (c, h)
JobsOfKey(js, c, h) ==
    LET S == get_jobs_by_name(js, job_name(c, h))
    IN  [j \in S |-> js[j]]

\* the record of user c in the store, or nothing
RecordOf(d, c) == IF c \in DOMAIN d THEN {d[c]} ELSE {}

ValidTimes == {x \in HHMMInputs : parse_hhmm(x) # None}

\* C16: Schedule(c, h, x) with a valid time ends either with the store mapping
\* (c, h) to x and one live timer of (c, h) at x, or, when the save failed,
\* with the store entry and the live timers of (c, h) as they were before the
\* call; the records and timers of every other user are as they were.
C16_ScheduleAtomic ==
    [][ \A k \in Keys : \A x \in ValidTimes : \A f \in Faults :
          (Reports("Schedule", k[1], k[2]) /\ ScheduleWithSave(k[1], k[2], x, f)) =>
              /\ \/ /\ StoredEntry(data', k[1], k[2]) = {x}
                    /\ \E j \in DOMAIN JobsOfKey(jobs', k[1], k[2]) :
                          /\ j.time = parse_hhmm(x)
                          /\ JobsOfKey(jobs', k[1], k[2]) = [i \in {j} |-> 1]
                 \/ /\ f # "none"
                    /\ StoredEntry(data', k[1], k[2]) = StoredEntry(data, k[1], k[2])
                    /\ JobsOfKey(jobs', k[1], k[2]) = JobsOfKey(jobs, k[1], k[2])
              /\ \A o \in Chats \ {k[1]} :
                    /\ RecordOf(data', o) = RecordOf(data, o)
                    /\ JobsOf(jobs', o) = JobsOf(jobs, o)
      ]_vars

\* what the operation that made the step was about to save
Intended(d, now) ==
    LET c == event'.chat_id
        h == event'.habit_name
    IN  CASE event'.op = "AddHabit" -> add_habit(d, c, h, now).data
          [] event'.op = "RemoveHabit" -> remove_habit(d, c, h).data
          [] event'.op = "MarkDone" -> mark_done(d, c, h, now).data
          [] event'.op = "Unschedule" ->
                Put(d, c, [get_user(d, c) EXCEPT !.reminders = Del(@, h)])
          [] OTHER -> d

\* C17: whatever happens to a save, a load after it returns the complete
\* store of before the save or the complete store the operation was saving;
\* in particular never the empty store in place of a store with users.
C17_SaveAtomic ==
    [][ /\ event'.op \in {"AddHabit", "RemoveHabit", "MarkDone", "Unschedule"} =>
              data' \in {data, Intended(data, today)}
        /\ event'.op = "Schedule" =>
              \/ data' = data
              \/ \E x \in ValidTimes :
                    data' = WithReminder(data, event'.chat_id, event'.habit_name, x)
        /\ data # EmptyMap => data' # EmptyMap
      ]_vars

====
